---- MODULE Spec2Model ----
(***************************************************************************)
(* Webhook ingestion service: signature verification, payload validation,  *)
(* idempotent SQLite storage keyed by message_id, and the statistics read. *)
(* Strings are sequences of one-character strings; an optional value is    *)
(* the empty sequence (absent / None / NULL) or a one-element sequence.    *)
(***************************************************************************)
EXTENDS Integers, Sequences, FiniteSets, TLC

VARIABLES
    secret,     \* Config.WEBHOOK_SECRET
    messages,   \* committed rows of table messages
    clock,      \* datetime.utcnow() of the host
    lock,       \* connection holding SQLite's write lock, 0 when free
    pc,         \* per worker process: position inside webhook_endpoint
    cur,        \* per worker process: request in flight and its INSERT row
    out,        \* per worker process: last response sent
    okKeys,     \* message_ids of the requests answered 200 so far
    stats,      \* result of the get_stats call in progress / last finished
    qres,       \* GET /messages: the call in progress / its last response
    db,         \* TRUE while the database file can be opened and written
    health,     \* last answer of a health endpoint
    failed      \* message_ids of the inserts that raised a storage error

vars == <<secret, messages, clock, lock, pc, cur, out, okKeys, stats, qres,
          db, health, failed>>

-----------------------------------------------------------------------------
(* Bounds *)

MaxClock == 2
NumWorkers == 2

Workers == 1..NumWorkers

-----------------------------------------------------------------------------
(* Values *)

None == <<>>
Some(x) == <<x>>

NL == "\n"
ArabicDigit == "U+0663"
EAcute == "U+00E9"

MAX_TEXT_LENGTH == 4096

LIMIT_DEFAULT == 50
LIMIT_MIN == 1
LIMIT_MAX == 100
OFFSET_DEFAULT == 0
OFFSET_MIN == 0

AsciiDigits == {"0", "1", "2", "3", "4", "5", "6", "7", "8", "9"}
UnicodeDigits == AsciiDigits \cup {ArabicDigit}
Whitespace == {" ", NL}
NonAscii == {ArabicDigit, EAcute}

TestSecret == "testsecret"
OtherSecret == "othersecret"

\* str.strip(): drop leading and trailing whitespace
RECURSIVE lstrip(_)
lstrip(s) ==
    IF s # <<>> /\ Head(s) \in Whitespace THEN lstrip(Tail(s)) ELSE s

RECURSIVE rstrip(_)
rstrip(s) ==
    IF s # <<>> /\ s[Len(s)] \in Whitespace
    THEN rstrip(SubSeq(s, 1, Len(s) - 1))
    ELSE s

stripLeftOnly(s) == lstrip(s)

strip(s) == rstrip(lstrip(s))

\* re.match(r'^\+\d+$', v) on a str: \d is any Unicode decimal digit and
\* $ also matches just before a newline that ends the string
E164Dollar(v) ==
    IF v # <<>> /\ v[Len(v)] = NL THEN SubSeq(v, 1, Len(v) - 1) ELSE v

E164DigitClass == UnicodeDigits

ReMatchE164(v) ==
    LET core == E164Dollar(v)
    IN  /\ Len(core) >= 2
        /\ core[1] = "+"
        /\ \A i \in 2..Len(core) : core[i] \in E164DigitClass

UtcOffset == <<"+", "0", "0", ":", "0", "0">>

\* datetime.isoformat(): seconds, then the fraction only when it is not
\* zero, then the UTC offset only when the datetime is aware (off # <<>>)
isoformat(dt) ==
    <<"T", dt.hour>>
        \o (IF dt.micro = "0" THEN <<>> ELSE <<".", dt.micro>>)
        \o dt.off

\* datetime.fromisoformat() of a string isoformat() wrote
fromisoformat(s) ==
    LET rest == SubSeq(s, 3, Len(s))
        frac == rest # <<>> /\ rest[1] = "."
    IN  [hour |-> s[2],
         micro |-> IF frac THEN rest[2] ELSE "0",
         off |-> IF frac THEN SubSeq(rest, 3, Len(rest)) ELSE rest]

\* pydantic's datetime parsing of the ts field: "Z" is UTC
ParseTs(raw) ==
    [hour |-> raw.hour, micro |-> raw.micro,
     off |-> IF raw.tz = <<"Z">> THEN UtcOffset ELSE raw.tz]

\* code point of a character
Ord(c) ==
    CASE c = NL -> 10 [] c = " " -> 32 [] c = "%" -> 37 [] c = "+" -> 43
      [] c = "." -> 46 [] c = "0" -> 48 [] c = "1" -> 49 [] c = "2" -> 50
      [] c = "3" -> 51 [] c = "4" -> 52 [] c = "5" -> 53 [] c = "6" -> 54
      [] c = "7" -> 55 [] c = "8" -> 56 [] c = "9" -> 57 [] c = ":" -> 58
      [] c = "H" -> 72 [] c = "T" -> 84 [] c = "_" -> 95 [] c = "a" -> 97
      [] c = "b" -> 98 [] c = "h" -> 104 [] c = "x" -> 120
      [] c = EAcute -> 233 [] c = ArabicDigit -> 1635

\* SQLite's BINARY collation on TEXT: byte order, which is code point order
RECURSIVE StrLess(_, _)
StrLess(a, b) ==
    IF b = <<>> THEN FALSE
    ELSE IF a = <<>> THEN TRUE
    ELSE IF Ord(Head(a)) # Ord(Head(b)) THEN Ord(Head(a)) < Ord(Head(b))
    ELSE StrLess(Tail(a), Tail(b))

-----------------------------------------------------------------------------
(* WebhookPayload: the model FastAPI validates the JSON body against *)

\* Field(..., min_length=1) and then validate_message_id
validate_message_id(f) ==
    /\ f # None
    /\ Len(f[1]) >= 1
    /\ strip(f[1]) # <<>>

\* validate_e164, for from_ and for to
validate_e164(f) ==
    /\ f # None
    /\ f[1] # <<>>
    /\ ReMatchE164(f[1])

validate_ts(f) == f # None /\ f[1].ok

\* a limit that excludes the maximum itself
validate_textExclusive(f) == f = None \/ Len(f[1]) < MAX_TEXT_LENGTH

\* Field(default=None, max_length=4096)
validate_text(f) == f = None \/ Len(f[1]) <= MAX_TEXT_LENGTH

WebhookPayloadValid(body) ==
    /\ validate_message_id(body.message_id)
    /\ validate_e164(body.from_)
    /\ validate_e164(body.to)
    /\ validate_ts(body.ts)
    /\ validate_text(body.text)

\* the validated model instance: message_id stripped, ts parsed
WebhookPayload(body) ==
    [message_id |-> strip(body.message_id[1]),
     from_ |-> body.from_[1],
     to |-> body.to[1],
     ts |-> ParseTs(body.ts[1]),
     text |-> body.text]

-----------------------------------------------------------------------------
(* verify_signature *)

\* hmac.new(key, payload, sha256).hexdigest(): lowercase hex, a different
\* string for every different key or payload
hexdigest(key, payload) == [kind |-> "hex", key |-> key, body |-> payload]

\* hmac.compare_digest accepts two str only when both are ASCII
ComparableStr(sig) ==
    /\ sig.kind # "none"
    /\ sig.kind = "text" => \A i \in 1..Len(sig.chars) : sig.chars[i] \notin NonAscii

SecretConfiguredAlways(s) == TRUE

SecretConfigured(s) == s # ""

\* returns [raised, value]: hmac.compare_digest raises TypeError on a str
\* with a non-ASCII character
verify_signature(payload, signature) ==
    IF ~SecretConfigured(secret)
    THEN [raised |-> FALSE, value |-> FALSE]
    ELSE IF ~ComparableStr(signature)
         THEN [raised |-> TRUE, value |-> FALSE]
         ELSE [raised |-> FALSE,
               value |-> signature = hexdigest(secret, payload)]

-----------------------------------------------------------------------------
(* Requests: a raw JSON body and the X-Signature header (None when the     *)
(* header is not sent)                                                      *)

T1 == [ok |-> TRUE, hour |-> "1", micro |-> "0", tz |-> <<"Z">>]
T2 == [ok |-> TRUE, hour |-> "2", micro |-> "0", tz |-> <<"Z">>]
BadTs == [ok |-> FALSE, hour |-> "0", micro |-> "0", tz |-> <<"Z">>]

LongText(n) == [i \in 1..n |-> "x"]

BaseBody ==
    [message_id |-> Some(<<"a">>),
     from_ |-> Some(<<"+", "1">>),
     to |-> Some(<<"+", "2">>),
     ts |-> Some(T1),
     text |-> Some(<<"h">>)]

MessageIdInputs ==
    {None, Some(<<>>), Some(<<" ">>), Some(<<" ", "a">>), Some(<<"a", " ">>),
     Some(<<"b">>)}

PhoneInputs ==
    {None, Some(<<>>), Some(<<"+">>), Some(<<"1">>), Some(<<"+", "1", "x">>),
     Some(<<"+", "1", NL>>), Some(<<"+", ArabicDigit>>), Some(<<"+", "1", "2">>)}

TsInputs == {None, Some(BadTs), Some(T2)}

TextInputs ==
    {None, Some(<<"H">>), Some(LongText(MAX_TEXT_LENGTH)),
     Some(LongText(MAX_TEXT_LENGTH + 1))}

\* the base body with one field replaced
OneFieldBodies ==
    {BaseBody}
    \cup {[BaseBody EXCEPT !.message_id = v] : v \in MessageIdInputs}
    \cup {[BaseBody EXCEPT !.from_ = v] : v \in PhoneInputs}
    \cup {[BaseBody EXCEPT !.to = v] : v \in PhoneInputs}
    \cup {[BaseBody EXCEPT !.ts = v] : v \in TsInputs}
    \cup {[BaseBody EXCEPT !.text = v] : v \in TextInputs}

\* valid bodies that share or differ in message_id, with other fields varying
ValidBodies ==
    [message_id : {Some(<<"a">>), Some(<<" ", "a">>), Some(<<"b">>)},
     from_ : {Some(<<"+", "1">>), Some(<<"+", "3">>)},
     to : {Some(<<"+", "2">>)},
     ts : {Some(T1), Some(T2)},
     text : {Some(<<"h">>)}]

Bodies == OneFieldBodies \cup ValidBodies

OtherBody == [BaseBody EXCEPT !.ts = Some(T2)]

\* every kind of X-Signature value, for the base body
BaseSignatureInputs ==
    {None,
     Some(hexdigest(TestSecret, BaseBody)),
     Some(hexdigest(OtherSecret, BaseBody)),
     Some(hexdigest("", BaseBody)),
     Some(hexdigest(TestSecret, OtherBody)),
     Some([kind |-> "HEX", key |-> TestSecret, body |-> BaseBody]),
     Some([kind |-> "text", chars |-> <<>>]),
     Some([kind |-> "text", chars |-> <<"x">>]),
     Some([kind |-> "text", chars |-> <<EAcute>>])}

\* header absent, correct, wrong, for any body
SignatureInputs(b) ==
    {None,
     Some(hexdigest(TestSecret, b)),
     Some([kind |-> "text", chars |-> <<"x">>])}

Signed(b) == [body |-> b, sig |-> Some(hexdigest(TestSecret, b))]

Requests ==
    {[body |-> BaseBody, sig |-> s] : s \in BaseSignatureInputs}
    \cup UNION {{[body |-> b, sig |-> s] : s \in SignatureInputs(b)} : b \in Bodies}

\* correctly signed valid requests only
StoreRequests == {Signed(b) : b \in ValidBodies}

StatsRequests ==
    {Signed(b) : b \in {v \in ValidBodies : v.ts = Some(T1) \/ v.from_ = Some(<<"+", "3">>)}}

ConcRequests ==
    {Signed(BaseBody),
     Signed([BaseBody EXCEPT !.message_id = Some(<<" ", "a">>), !.from_ = Some(<<"+", "3">>)]),
     Signed([BaseBody EXCEPT !.message_id = Some(<<"b">>)])}

\* two messages, each sent any number of times
RetryRequests ==
    {Signed(BaseBody), Signed([BaseBody EXCEPT !.message_id = Some(<<"b">>)])}

\* stored, repeated, wrongly signed and invalid requests
MixedRequests ==
    ConcRequests
    \cup {[body |-> BaseBody, sig |-> Some(hexdigest(OtherSecret, BaseBody))],
          Signed([BaseBody EXCEPT !.from_ = Some(<<"+">>)])}

\* GET /messages without parameters and with a from filter
MixedQueries ==
    {[from_ |-> f, since |-> None, q |-> None, limit |-> None, offset |-> None] :
        f \in {None, Some(<<"+", "1">>)}}

\* timestamps sent with another UTC offset or with a fraction of a second
PlusTwo == <<"+", "0", "2", ":", "0", "0">>
T3East == [ok |-> TRUE, hour |-> "3", micro |-> "0", tz |-> PlusTwo]
T4East == [ok |-> TRUE, hour |-> "4", micro |-> "0", tz |-> PlusTwo]
T2Half == [ok |-> TRUE, hour |-> "2", micro |-> "5", tz |-> <<"Z">>]

QueryBodies ==
    {[message_id |-> Some(<<"a">>), from_ |-> Some(<<"+", "1">>),
      to |-> Some(<<"+", "2">>), ts |-> Some(T3East), text |-> Some(<<"h">>)],
     [message_id |-> Some(<<"b">>), from_ |-> Some(<<"+", "1">>),
      to |-> Some(<<"+", "2">>), ts |-> Some(T2), text |-> Some(<<"H">>)],
     [message_id |-> Some(<<"a", "b">>), from_ |-> Some(<<"+", "3">>),
      to |-> Some(<<"+", "2">>), ts |-> Some(T2), text |-> None],
     [message_id |-> Some(<<"b", "a">>), from_ |-> Some(<<"+", "3">>),
      to |-> Some(<<"+", "2">>), ts |-> Some(T2Half), text |-> Some(<<"%">>)],
     [message_id |-> Some(<<"b", "b">>), from_ |-> Some(<<"+", "1">>),
      to |-> Some(<<"+", "2">>), ts |-> Some(T1), text |-> Some(<<"x", "h">>)]}

\* GET /messages query strings
FromInputs ==
    {None, Some(<<>>), Some(<<"+", "1">>), Some(<<"+", "3">>), Some(<<"+">>)}

SinceInputs == {None, Some(T2), Some(T3East), Some(T4East), Some(BadTs)}

QInputs ==
    {None, Some(<<>>), Some(<<"h">>), Some(<<"H">>), Some(<<"%">>), Some(<<"_">>)}

LimitInputs ==
    {None, Some(LIMIT_MIN - 1), Some(LIMIT_MIN), Some(2), Some(LIMIT_MAX),
     Some(LIMIT_MAX + 1)}

OffsetInputs ==
    {None, Some(OFFSET_MIN - 1), Some(OFFSET_MIN), Some(1), Some(2), Some(5)}

Queries ==
    [limit : {None}, offset : {None}, from_ : FromInputs, since : SinceInputs,
     q : QInputs]
    \cup [limit : LimitInputs, offset : OffsetInputs,
          from_ : {None, Some(<<"+", "1">>)}, since : {None}, q : {None}]

-----------------------------------------------------------------------------
(* MessageStorage.insert_message *)

\* the parameter tuple of the INSERT statement
InsertRow(payload, now) ==
    [message_id |-> payload.message_id,
     from_msisdn |-> payload.from_,
     to_msisdn |-> payload.to,
     ts |-> isoformat(payload.ts),
     text |-> payload.text,
     created_at |-> now]

\* a table without a uniqueness constraint
PrimaryKeyViolationNever(table, row) == FALSE

\* a uniqueness constraint over the whole row instead of the key
PrimaryKeyViolationWholeRow(table, row) == row \in table

\* message_id TEXT PRIMARY KEY
PrimaryKeyViolation(table, row) ==
    \E m \in table : m.message_id = row.message_id

CanWriteAlways(w) == TRUE

\* SQLite admits one writing connection at a time
CanWrite(w) == lock = 0

Response(r, status, result, dup, inserted) ==
    Some([req |-> r, status |-> status, result |-> result, dup |-> dup,
          inserted |-> inserted])

-----------------------------------------------------------------------------
(* POST /webhook *)

\* x_signature: str = Header(..., alias="X-Signature"): a required header
HeaderMissing(sig) == sig = None

HeaderValue(sig) == IF sig = None THEN [kind |-> "none"] ELSE sig[1]

RequestValidationErrorBodyOnly(r) == ~WebhookPayloadValid(r.body)

\* request validation of the parameters payload and x_signature
RequestValidationError(r) ==
    HeaderMissing(r.sig) \/ ~WebhookPayloadValid(r.body)

DuplicateResponseRaises(r) == Response(r, 500, "validation_error", FALSE, "raised")

\* the handler's answer when insert_message returned False
DuplicateResponse(r) == Response(r, 200, "duplicate", TRUE, "False")

\* FastAPI resolves the parameters (body model, required header) before the
\* handler body runs; the handler then verifies the signature and calls
\* insert_message, which evaluates the INSERT parameters
WebhookRequest(w, r) ==
    /\ pc[w] = "idle"
    /\ IF RequestValidationError(r)
       THEN /\ out' = [out EXCEPT ![w] = Response(r, 422, "none", FALSE, "not_called")]
            /\ UNCHANGED <<pc, cur>>
       ELSE LET v == verify_signature(r.body, HeaderValue(r.sig))
            IN  IF v.raised
                THEN /\ out' = [out EXCEPT ![w] =
                                  Response(r, 500, "validation_error", FALSE, "not_called")]
                     /\ UNCHANGED <<pc, cur>>
                ELSE IF ~v.value
                THEN /\ out' = [out EXCEPT ![w] =
                                  Response(r, 401, "invalid_signature", FALSE, "not_called")]
                     /\ UNCHANGED <<pc, cur>>
                ELSE /\ pc' = [pc EXCEPT ![w] = "execute"]
                     /\ cur' = [cur EXCEPT ![w] =
                                  Some([req |-> r,
                                        row |-> InsertRow(WebhookPayload(r.body), clock)])]
                     /\ UNCHANGED out
    /\ UNCHANGED <<secret, messages, clock, lock, okKeys, stats, qres, db, health, failed>>

\* conn.execute(INSERT ...): takes the write lock, checks the primary key
InsertExecute(w) ==
    /\ pc[w] = "execute"
    /\ db
    /\ CanWrite(w)
    /\ lock' = w
    /\ pc' = [pc EXCEPT ![w] =
                IF PrimaryKeyViolation(messages, cur[w][1].row)
                THEN "rollback" ELSE "commit"]
    /\ UNCHANGED <<secret, messages, clock, cur, out, okKeys, stats, qres, db, health, failed>>

\* conn.commit(); return True; the handler answers 200, result created
InsertCommit(w) ==
    /\ pc[w] = "commit"
    /\ db
    /\ messages' = messages \cup {cur[w][1].row}
    /\ lock' = 0
    /\ pc' = [pc EXCEPT ![w] = "idle"]
    /\ out' = [out EXCEPT ![w] = Response(cur[w][1].req, 200, "created", FALSE, "True")]
    /\ cur' = [cur EXCEPT ![w] = None]
    /\ okKeys' = okKeys \cup {cur[w][1].row.message_id}
    /\ UNCHANGED <<secret, clock, stats, qres, db, health, failed>>

\* sqlite3.IntegrityError: the connection rolls back; return False; the
\* handler answers 200, result duplicate
InsertRollback(w) ==
    /\ pc[w] = "rollback"
    /\ lock' = 0
    /\ pc' = [pc EXCEPT ![w] = "idle"]
    /\ out' = [out EXCEPT ![w] = DuplicateResponse(cur[w][1].req)]
    /\ cur' = [cur EXCEPT ![w] = None]
    /\ okKeys' = okKeys \cup {cur[w][1].row.message_id}
    /\ UNCHANGED <<secret, messages, clock, stats, qres, db, health, failed>>

\* the handler's answer when insert_message raised
ErrorResponse(r) == Response(r, 500, "validation_error", FALSE, "raised")

\* a failure that leaves the row of the failed statement in the table
InsertRaisesNoRollback(w) ==
    /\ pc[w] \in {"execute", "commit"}
    /\ ~db \/ (pc[w] = "execute" /\ ~CanWrite(w))
    /\ messages' = messages \cup {cur[w][1].row}
    /\ lock' = IF lock = w THEN 0 ELSE lock
    /\ pc' = [pc EXCEPT ![w] = "idle"]
    /\ out' = [out EXCEPT ![w] = ErrorResponse(cur[w][1].req)]
    /\ cur' = [cur EXCEPT ![w] = None]
    /\ failed' = failed \cup {cur[w][1].row.message_id}
    /\ UNCHANGED <<secret, clock, okKeys, stats, qres, db, health>>

\* sqlite3.OperationalError out of connect, execute or commit: the file is
\* unreachable, or another connection kept the write lock for the whole busy
\* timeout. insert_message catches IntegrityError only; the connection's
\* context manager rolls back; the handler's except Exception answers 500
InsertRaises(w) ==
    /\ pc[w] \in {"execute", "commit"}
    /\ ~db \/ (pc[w] = "execute" /\ ~CanWrite(w))
    /\ lock' = IF lock = w THEN 0 ELSE lock
    /\ pc' = [pc EXCEPT ![w] = "idle"]
    /\ out' = [out EXCEPT ![w] = ErrorResponse(cur[w][1].req)]
    /\ cur' = [cur EXCEPT ![w] = None]
    /\ failed' = failed \cup {cur[w][1].row.message_id}
    /\ UNCHANGED <<secret, messages, clock, okKeys, stats, qres, db, health>>

-----------------------------------------------------------------------------
(* MessageStorage.get_stats: four SELECT statements on one connection, each *)
(* reading the rows committed when it runs                                  *)

TOP_SENDERS_LIMIT == 10

\* SELECT COUNT(*) FROM messages
CountAll(table) == Cardinality(table)

\* SELECT COUNT(DISTINCT from_msisdn) FROM messages
CountDistinctSenders(table) == Cardinality({m.from_msisdn : m \in table})

\* ties in count broken by from descending
SenderBeforeFromDesc(x, y) ==
    \/ x.count > y.count
    \/ x.count = y.count /\ StrLess(y.from_, x.from_)

\* ORDER BY count DESC, from_msisdn ASC
SenderBefore(x, y) ==
    \/ x.count > y.count
    \/ x.count = y.count /\ StrLess(x.from_, y.from_)

RECURSIVE OrderSenders(_)
OrderSenders(S) ==
    IF S = {} THEN <<>>
    ELSE LET x == CHOOSE x \in S : \A y \in S \ {x} : SenderBefore(x, y)
         IN  <<x>> \o OrderSenders(S \ {x})

Limit(seq, n) == SubSeq(seq, 1, IF Len(seq) < n THEN Len(seq) ELSE n)

\* SELECT from_msisdn, COUNT(*) ... GROUP BY from_msisdn ORDER BY ... LIMIT 10
TopSenders(table) ==
    Limit(OrderSenders({[from_ |-> f,
                         count |-> Cardinality({m \in table : m.from_msisdn = f})] :
                        f \in {m.from_msisdn : m \in table}}),
          TOP_SENDERS_LIMIT)

\* SELECT MIN(ts), MAX(ts): NULL on an empty table
MinTs(table) ==
    IF table = {} THEN None
    ELSE Some(CHOOSE t \in {m.ts : m \in table} :
                \A u \in {m.ts : m \in table} : t = u \/ StrLess(t, u))

MaxTs(table) ==
    IF table = {} THEN None
    ELSE Some(CHOOSE t \in {m.ts : m \in table} :
                \A u \in {m.ts : m \in table} : t = u \/ StrLess(u, t))

\* if timestamps["first_ts"]: datetime.fromisoformat(...)
TsResult(t) == IF t = None \/ t[1] = <<>> THEN None ELSE Some(fromisoformat(t[1]))

NoStats ==
    [pc |-> "idle", total_messages |-> 0, senders_count |-> 0,
     messages_per_sender |-> <<>>, first_message_ts |-> None,
     last_message_ts |-> None]

StatsTotal ==
    /\ stats.pc \in {"idle", "done"}
    /\ stats' = [NoStats EXCEPT !.pc = "senders",
                                !.total_messages = CountAll(messages)]
    /\ UNCHANGED <<secret, messages, clock, lock, pc, cur, out, okKeys, qres, db, health, failed>>

StatsSenders ==
    /\ stats.pc = "senders"
    /\ stats' = [stats EXCEPT !.pc = "top",
                              !.senders_count = CountDistinctSenders(messages)]
    /\ UNCHANGED <<secret, messages, clock, lock, pc, cur, out, okKeys, qres, db, health, failed>>

StatsTop ==
    /\ stats.pc = "top"
    /\ stats' = [stats EXCEPT !.pc = "timestamps",
                              !.messages_per_sender = TopSenders(messages)]
    /\ UNCHANGED <<secret, messages, clock, lock, pc, cur, out, okKeys, qres, db, health, failed>>

StatsTimestamps ==
    /\ stats.pc = "timestamps"
    /\ stats' = [stats EXCEPT !.pc = "done",
                              !.first_message_ts = TsResult(MinTs(messages)),
                              !.last_message_ts = TsResult(MaxTs(messages))]
    /\ UNCHANGED <<secret, messages, clock, lock, pc, cur, out, okKeys, qres, db, health, failed>>

-----------------------------------------------------------------------------
(* MessageStorage.get_messages and GET /messages *)

\* SQLite's LIKE compares ASCII letters without regard to case
LikeFold(c) == IF c = "H" THEN "h" ELSE c

\* SQLite's LIKE: % matches any run of characters, _ any one character
RECURSIVE LikeMatch(_, _)
LikeMatch(pat, txt) ==
    IF pat = <<>> THEN txt = <<>>
    ELSE IF Head(pat) = "%"
         THEN \/ LikeMatch(Tail(pat), txt)
              \/ txt # <<>> /\ LikeMatch(pat, Tail(txt))
    ELSE IF txt = <<>> THEN FALSE
    ELSE IF Head(pat) = "_" THEN LikeMatch(Tail(pat), Tail(txt))
    ELSE /\ LikeFold(Head(pat)) = LikeFold(Head(txt))
         /\ LikeMatch(Tail(pat), Tail(txt))

\* if from_msisdn: / if search_query: an empty str is falsy
StrGiven(opt) == opt # None /\ opt[1] # <<>>

\* if since: a datetime is always truthy
SinceGiven(opt) == opt # None

\* from_msisdn = ?
FromClause(m, args) == m.from_msisdn = args.from_[1]

\* ts >= ?, bound to since.isoformat(); a TEXT comparison
SinceClause(m, args) == ~StrLess(m.ts, isoformat(args.since[1]))

\* text LIKE ?, bound to f"%{search_query}%"; NULL matches nothing
TextClause(m, args) ==
    m.text # None /\ LikeMatch(<<"%">> \o args.q[1] \o <<"%">>, m.text[1])

\* where_clauses, evaluated on row m
WhereClauses(m, args) ==
    (IF StrGiven(args.from_) THEN <<FromClause(m, args)>> ELSE <<>>)
        \o (IF SinceGiven(args.since) THEN <<SinceClause(m, args)>> ELSE <<>>)
        \o (IF StrGiven(args.q) THEN <<TextClause(m, args)>> ELSE <<>>)

\* the clauses joined with OR
WhereSqlAny(clauses) == clauses = <<>> \/ \E i \in 1..Len(clauses) : clauses[i]

\* " AND ".join(where_clauses) if where_clauses else "1=1"
WhereSql(clauses) == \A i \in 1..Len(clauses) : clauses[i]

Matching(table, args) == {m \in table : WhereSql(WhereClauses(m, args))}

\* SELECT COUNT(*) ... WHERE
CountMatching(table, args) == Cardinality(Matching(table, args))

\* ORDER BY ts ASC, message_id ASC
RowBefore(x, y) ==
    \/ StrLess(x.ts, y.ts)
    \/ x.ts = y.ts /\ StrLess(x.message_id, y.message_id)

RECURSIVE OrderRows(_)
OrderRows(S) ==
    IF S = {} THEN <<>>
    ELSE LET x == CHOOSE x \in S : \A y \in S \ {x} : RowBefore(x, y)
         IN  <<x>> \o OrderRows(S \ {x})

\* the two parameters bound in the other order
LimitOffsetSwapped(seq, limit, offset) ==
    IF limit >= Len(seq) THEN <<>>
    ELSE SubSeq(seq, limit + 1,
                IF limit + offset < Len(seq) THEN limit + offset ELSE Len(seq))

\* LIMIT ? OFFSET ?
LimitOffset(seq, limit, offset) ==
    IF offset >= Len(seq) THEN <<>>
    ELSE SubSeq(seq, offset + 1,
                IF offset + limit < Len(seq) THEN offset + limit ELSE Len(seq))

\* Message(...) built from a row
ToMessage(row) ==
    [message_id |-> row.message_id,
     from_ |-> row.from_msisdn,
     to |-> row.to_msisdn,
     ts |-> fromisoformat(row.ts),
     text |-> row.text,
     created_at |-> row.created_at]

SelectPage(table, args) ==
    LET rows == LimitOffset(OrderRows(Matching(table, args)), args.limit, args.offset)
    IN  [i \in 1..Len(rows) |-> ToMessage(rows[i])]

\* limit without its upper bound
QueryParamsValidNoUpper(req) ==
    /\ req.limit = None \/ req.limit[1] >= LIMIT_MIN
    /\ req.offset = None \/ req.offset[1] >= OFFSET_MIN
    /\ req.since = None \/ req.since[1].ok

\* Query(default=50, ge=1, le=100), Query(default=0, ge=0), Optional[datetime]
QueryParamsValid(req) ==
    /\ req.limit = None \/ (req.limit[1] >= LIMIT_MIN /\ req.limit[1] <= LIMIT_MAX)
    /\ req.offset = None \/ req.offset[1] >= OFFSET_MIN
    /\ req.since = None \/ req.since[1].ok

\* the arguments the endpoint passes to storage.get_messages
QueryArgs(req) ==
    [limit |-> IF req.limit = None THEN LIMIT_DEFAULT ELSE req.limit[1],
     offset |-> IF req.offset = None THEN OFFSET_DEFAULT ELSE req.offset[1],
     from_ |-> req.from_,
     since |-> IF req.since = None THEN None ELSE Some(ParseTs(req.since[1])),
     q |-> req.q]

NoQuery ==
    [pc |-> "idle", req |-> None, status |-> 0, total |-> 0, data |-> <<>>,
     limit |-> 0, offset |-> 0]

\* GET /messages: parameter validation, then the COUNT(*) statement
GetMessagesRequest(req) ==
    /\ qres.pc \in {"idle", "done"}
    /\ IF ~QueryParamsValid(req)
       THEN qres' = [NoQuery EXCEPT !.pc = "done", !.req = Some(req), !.status = 422]
       ELSE qres' = [NoQuery EXCEPT
                        !.pc = "select",
                        !.req = Some(req),
                        !.total = CountMatching(messages, QueryArgs(req)),
                        !.limit = QueryArgs(req).limit,
                        !.offset = QueryArgs(req).offset]
    /\ UNCHANGED <<secret, messages, clock, lock, pc, cur, out, okKeys, stats, db, health, failed>>

\* the SELECT ... ORDER BY ... LIMIT ? OFFSET ? statement and the response
GetMessagesSelect ==
    /\ qres.pc = "select"
    /\ qres' = [qres EXCEPT
                    !.pc = "done",
                    !.status = 200,
                    !.data = SelectPage(messages, QueryArgs(qres.req[1]))]
    /\ UNCHANGED <<secret, messages, clock, lock, pc, cur, out, okKeys, stats, db, health, failed>>

-----------------------------------------------------------------------------
(* GET /health/live and GET /health/ready *)

NoHealth == [path |-> "none", status |-> 0]

is_readyAlways == TRUE

\* Config.is_ready(): bool(cls.WEBHOOK_SECRET)
is_ready == secret # ""

\* MessageStorage.health_check(): SELECT 1 on a new connection, False on
\* any exception
health_check == db

\* liveness_check: no condition
LivenessCheck ==
    /\ health' = [path |-> "live", status |-> 200]
    /\ UNCHANGED <<secret, messages, clock, lock, pc, cur, out, okKeys, stats, qres,
                   db, failed>>

\* readiness_check: 503 without a secret, 503 when the health check fails
ReadinessCheck ==
    /\ health' = [path |-> "ready",
                  status |-> IF ~is_ready THEN 503
                             ELSE IF ~health_check THEN 503
                             ELSE 200]
    /\ UNCHANGED <<secret, messages, clock, lock, pc, cur, out, okKeys, stats, qres,
                   db, failed>>

\* the database file becomes unreachable, or reachable again
StorageFails ==
    /\ db
    /\ db' = FALSE
    /\ UNCHANGED <<secret, messages, clock, lock, pc, cur, out, okKeys, stats, qres,
                   health, failed>>

StorageRecovers ==
    /\ ~db
    /\ db' = TRUE
    /\ UNCHANGED <<secret, messages, clock, lock, pc, cur, out, okKeys, stats, qres,
                   health, failed>>

\* the host clock advances
Tick ==
    /\ clock < MaxClock
    /\ clock' = clock + 1
    /\ UNCHANGED <<secret, messages, lock, pc, cur, out, okKeys, stats, qres, db, health, failed>>

-----------------------------------------------------------------------------
(* Specifications *)

Init ==
    /\ secret \in {"", TestSecret}
    /\ messages = {}
    /\ clock = 0
    /\ lock = 0
    /\ pc = [w \in Workers |-> "idle"]
    /\ cur = [w \in Workers |-> None]
    /\ out = [w \in Workers |-> None]
    /\ okKeys = {}
    /\ stats = NoStats
    /\ qres = NoQuery
    /\ db = TRUE
    /\ health = NoHealth
    /\ failed = {}

\* one server process: requests of every kind, handled one after the other
Next ==
    \/ \E r \in Requests : WebhookRequest(1, r)
    \/ InsertExecute(1)
    \/ InsertCommit(1)
    \/ InsertRollback(1)

Spec == Init /\ [][Next]_vars

\* one server process storing valid requests while the clock advances
NextStore ==
    \/ \E r \in StoreRequests : WebhookRequest(1, r)
    \/ InsertExecute(1)
    \/ InsertCommit(1)
    \/ InsertRollback(1)
    \/ Tick

SpecStore == Init /\ [][NextStore]_vars

\* one server process serving POST /webhook and GET /stats
NextStats ==
    \/ \E r \in StatsRequests : stats.pc \in {"idle", "done"} /\ WebhookRequest(1, r)
    \/ InsertExecute(1)
    \/ InsertCommit(1)
    \/ InsertRollback(1)
    \/ pc[1] = "idle" /\ StatsTotal
    \/ StatsSenders
    \/ StatsTop
    \/ StatsTimestamps
    \/ Tick

SpecStats == Init /\ [][NextStats]_vars

\* the table after the requests of B were stored, in any order
RowsOf(B) == {InsertRow(WebhookPayload(b), 0) : b \in B}

InitWith(stores) ==
    /\ secret = TestSecret
    /\ messages \in stores
    /\ clock = 0
    /\ lock = 0
    /\ pc = [w \in Workers |-> "idle"]
    /\ cur = [w \in Workers |-> None]
    /\ out = [w \in Workers |-> None]
    /\ okKeys = {m.message_id : m \in messages}
    /\ stats = NoStats
    /\ qres = NoQuery
    /\ db = TRUE
    /\ health = NoHealth
    /\ failed = {}

\* GET /messages on a database that holds any of the query messages
InitQuery == InitWith({RowsOf(B) : B \in SUBSET QueryBodies})

NextQuery ==
    \/ \E req \in Queries : GetMessagesRequest(req)
    \/ GetMessagesSelect

SpecQuery == InitQuery /\ [][NextQuery]_vars

\* GET /stats on a database that holds one or two messages of each of the
\* first k senders, or any of the query messages
NumSenders == 11

DigitChars == <<"0", "1", "2", "3", "4", "5", "6", "7", "8", "9">>

\* "+0" .. "+9", "+10", "+11", ...
SenderName(i) ==
    IF i <= 10 THEN <<"+", DigitChars[i]>>
    ELSE <<"+", DigitChars[((i - 1) \div 10) + 1], DigitChars[((i - 1) % 10) + 1]>>

\* the j-th message of sender i
TopBody(i, j) ==
    [message_id |-> Some(SubSeq(SenderName(i), 2, Len(SenderName(i)))
                           \o (IF j = 1 THEN <<"a">> ELSE <<"b">>)),
     from_ |-> Some(SenderName(i)),
     to |-> Some(<<"+", "2">>),
     ts |-> Some(IF j = 1 THEN T1 ELSE T2),
     text |-> Some(<<"h">>)]

TopStores ==
    UNION {{RowsOf(UNION {{TopBody(i, j) : j \in 1..c[i]} : i \in 1..k}) :
              c \in [1..k -> 1..2]} :
           k \in 0..NumSenders}

InitTop == InitWith(TopStores \cup {RowsOf(B) : B \in SUBSET QueryBodies})

NextTop ==
    \/ StatsTotal
    \/ StatsSenders
    \/ StatsTop
    \/ StatsTimestamps

SpecTop == InitTop /\ [][NextTop]_vars

\* several server processes on one database file, steps interleaved
NextConc ==
    \/ \E w \in Workers, r \in ConcRequests : WebhookRequest(w, r)
    \/ \E w \in Workers : InsertExecute(w)
    \/ \E w \in Workers : InsertCommit(w)
    \/ \E w \in Workers : InsertRollback(w)

SpecConc == Init /\ [][NextConc]_vars

\* one process serving GET /stats while another one stores messages in the
\* same database file
NextStatsConc ==
    \/ \E r \in ConcRequests : WebhookRequest(1, r)
    \/ InsertExecute(1)
    \/ InsertCommit(1)
    \/ InsertRollback(1)
    \/ StatsTotal
    \/ StatsSenders
    \/ StatsTop
    \/ StatsTimestamps

SpecStatsConc == InitWith({{}}) /\ [][NextStatsConc]_vars

\* one process answering the health probes and storing messages while the
\* database file comes and goes
NextHealth ==
    \/ LivenessCheck
    \/ ReadinessCheck
    \/ StorageFails
    \/ StorageRecovers
    \/ \E r \in ConcRequests : WebhookRequest(1, r)
    \/ InsertExecute(1)
    \/ InsertCommit(1)
    \/ InsertRollback(1)
    \/ InsertRaises(1)

SpecHealth == Init /\ [][NextHealth]_vars

\* one process serving every endpoint
NextMixed ==
    \/ \E r \in MixedRequests : WebhookRequest(1, r)
    \/ InsertExecute(1)
    \/ InsertCommit(1)
    \/ InsertRollback(1)
    \/ StatsTotal
    \/ StatsSenders
    \/ StatsTop
    \/ StatsTimestamps
    \/ \E req \in MixedQueries : GetMessagesRequest(req)
    \/ GetMessagesSelect
    \/ LivenessCheck
    \/ ReadinessCheck

SpecMixed == Init /\ [][NextMixed]_vars

\* one process serving GET /messages while another one stores messages in
\* the same database file
NextQueryConc ==
    \/ \E r \in ConcRequests : WebhookRequest(1, r)
    \/ InsertExecute(1)
    \/ InsertCommit(1)
    \/ InsertRollback(1)
    \/ \E req \in MixedQueries : GetMessagesRequest(req)
    \/ GetMessagesSelect

SpecQueryConc == InitWith({{}}) /\ [][NextQueryConc]_vars

\* several server processes storing messages while the database file comes
\* and goes
NextFault ==
    \/ \E w \in Workers, r \in RetryRequests : WebhookRequest(w, r)
    \/ \E w \in Workers : InsertExecute(w)
    \/ \E w \in Workers : InsertCommit(w)
    \/ \E w \in Workers : InsertRollback(w)
    \/ \E w \in Workers : InsertRaises(w)
    \/ StorageFails
    \/ StorageRecovers

SpecFault == InitWith({{}}) /\ [][NextFault]_vars

\* two server processes storing messages while the clock advances
NextClock ==
    \/ \E w \in {1, 2}, r \in RetryRequests : WebhookRequest(w, r)
    \/ \E w \in {1, 2} : InsertExecute(w)
    \/ \E w \in {1, 2} : InsertCommit(w)
    \/ \E w \in {1, 2} : InsertRollback(w)
    \/ Tick

SpecClock == InitWith({{}}) /\ [][NextClock]_vars

-----------------------------------------------------------------------------
(* What the specification's words mean, stated without the code's helpers *)

\* '+' followed by one or more ASCII digits and nothing else
SpecE164(v) ==
    /\ Len(v) >= 2
    /\ v[1] = "+"
    /\ \A i \in 2..Len(v) : v[i] \in AsciiDigits

\* t is raw with its surrounding whitespace removed, and is not empty
IsTrimOf(t, raw) ==
    /\ t # <<>>
    /\ t[1] \notin Whitespace
    /\ t[Len(t)] \notin Whitespace
    /\ \E i \in 1..Len(raw) : \E j \in i..Len(raw) :
          /\ t = SubSeq(raw, i, j)
          /\ \A k \in 1..Len(raw) : (k < i \/ k > j) => raw[k] \in Whitespace

SpecPayloadValid(body) ==
    /\ body.message_id # None
    /\ \E k \in 1..Len(body.message_id[1]) : body.message_id[1][k] \notin Whitespace
    /\ body.from_ # None /\ SpecE164(body.from_[1])
    /\ body.to # None /\ SpecE164(body.to[1])
    /\ body.ts # None /\ body.ts[1].ok
    /\ body.text = None \/ Len(body.text[1]) <= 4096

\* the header equals the lowercase hex HMAC-SHA256 of the body under the
\* configured secret
CorrectlySigned(r) == r.sig = Some(hexdigest(secret, r.body))

UniqueIds(table) == \A a, b \in table : a.message_id = b.message_id => a = b

\* worker w returns from insert_message in this step
InsertReturns(w) == pc[w] \in {"commit", "rollback"} /\ pc'[w] = "idle"

-----------------------------------------------------------------------------
(* Claims *)

\* C1: the store holds at most one record per message_id, no stored record
\* ever changes, and an insert whose message_id is already stored returns
\* False and leaves the store as it was, whatever its other fields are
C1_InsertIdempotent ==
    [][/\ UniqueIds(messages')
       /\ \A m \in messages : m \in messages'
       /\ \A w \in Workers : InsertReturns(w) =>
            IF \E m \in messages : m.message_id = cur[w][1].row.message_id
            THEN out'[w][1].inserted = "False" /\ messages' = messages
            ELSE out'[w][1].inserted = "True"]_vars

\* a duplicate was answered for an id whose stored record has another sender
\* and an earlier received_at than the duplicate call would have written
C1_Witness ==
    /\ out[1] # None
    /\ out[1][1].inserted = "False"
    /\ \E m \in messages :
          /\ m.message_id = out[1][1].req.body.message_id[1]
          /\ m.from_msisdn # out[1][1].req.body.from_[1]
          /\ m.ts # isoformat(ParseTs(out[1][1].req.body.ts[1]))
          /\ m.created_at < clock
    /\ Cardinality(messages) = 1

C3_DuplicateOkCountedOnce ==
    [][/\ \A w \in Workers :
            (/\ out'[w] # None
             /\ SpecPayloadValid(out'[w][1].req.body)
             /\ secret # ""
             /\ CorrectlySigned(out'[w][1].req))
            => /\ out'[w][1].status = 200
               /\ out'[w][1].result \in {"created", "duplicate"}
       /\ (stats' # stats /\ stats'.pc = "senders")
            => stats'.total_messages = Cardinality(okKeys)]_vars

\* the same id was sent again and answered as duplicate, and the statistics
\* read after it count one message
C3_Witness ==
    /\ out[1] # None
    /\ out[1][1].status = 200
    /\ out[1][1].result = "duplicate"
    /\ Cardinality(okKeys) = 1
    /\ stats.pc = "done"
    /\ stats.total_messages = 1

\* C4: a well-formed request whose X-Signature is any string other than the
\* HMAC of the body under the configured secret is answered 401 without a
\* call of insert_message
C4_BadSignatureIs401 ==
    \A w \in Workers :
        (/\ out[w] # None
         /\ out[w][1].req.sig # None
         /\ SpecPayloadValid(out[w][1].req.body)
         /\ ~CorrectlySigned(out[w][1].req))
        => out[w][1].status = 401 /\ out[w][1].inserted = "not_called"

\* C5: with an empty secret verify_signature is False for every body and
\* signature, no request reaches insert_message and the store stays empty
C5_EmptySecretFailsClosed ==
    secret = "" =>
        /\ \A r \in Requests :
              verify_signature(r.body, HeaderValue(r.sig)) =
                  [raised |-> FALSE, value |-> FALSE]
        /\ messages = {}
        /\ \A w \in Workers :
              /\ pc[w] = "idle"
              /\ out[w] # None =>
                    /\ out[w][1].inserted = "not_called"
                    /\ out[w][1].status \in {401, 422}

\* the secret is empty and a request signed with the empty key got 401
C5_Witness ==
    /\ secret = ""
    /\ out[1] # None
    /\ out[1][1].req = [body |-> BaseBody, sig |-> Some(hexdigest("", BaseBody))]
    /\ out[1][1].status = 401

\* C6: the signature is checked before the payload: a request with an invalid
\* signature gets 401 also when its payload is malformed, and a request that
\* sent a signature gets 422 only after that signature was verified
C6_SignatureBeforeValidation ==
    \A w \in Workers :
        (/\ out[w] # None
         /\ out[w][1].req.sig # None
         /\ ComparableStr(out[w][1].req.sig[1]))
        => /\ ~CorrectlySigned(out[w][1].req) => out[w][1].status = 401
           /\ out[w][1].status = 422 =>
                 secret # "" /\ CorrectlySigned(out[w][1].req)

\* C7: a payload that violates a validation rule is answered 422, also when
\* it is correctly signed, and never reaches insert_message
C7_InvalidPayloadIs422 ==
    \A w \in Workers :
        (/\ out[w] # None
         /\ ~SpecPayloadValid(out[w][1].req.body)
         /\ secret # ""
         /\ CorrectlySigned(out[w][1].req))
        => out[w][1].status = 422 /\ out[w][1].inserted = "not_called"

\* C8: from and to of every stored record are '+' and ASCII digits only
C8_StoredPhonesAreE164 ==
    \A m \in messages : SpecE164(m.from_msisdn) /\ SpecE164(m.to_msisdn)

\* C9: every stored message_id is non-empty without surrounding whitespace,
\* a whitespace-only message_id is rejected, and a request is a duplicate
\* exactly when the record of its trimmed message_id is already stored
C9_MessageIdTrimmed ==
    [][/\ \A m \in messages' : IsTrimOf(m.message_id, m.message_id)
       /\ \A w \in Workers : out'[w] = None \/
            /\ (/\ out'[w][1].req.body.message_id # None
                 /\ \A k \in 1..Len(out'[w][1].req.body.message_id[1]) :
                       out'[w][1].req.body.message_id[1][k] \in Whitespace)
                => out'[w][1].status = 422 /\ out'[w][1].inserted = "not_called"
            /\ out'[w][1].status = 200 =>
                  \E m \in messages' :
                      IsTrimOf(m.message_id, out'[w][1].req.body.message_id[1])
       /\ \A w \in Workers : InsertReturns(w) =>
            ((\E m \in messages :
                 IsTrimOf(m.message_id, cur[w][1].req.body.message_id[1]))
             <=> out'[w][1].result = "duplicate")]_vars

\* the record stored under "a" by a request with sender +12 made a later
\* request with message_id " a" a duplicate
C9_Witness ==
    /\ out[1] # None
    /\ out[1][1].result = "duplicate"
    /\ out[1][1].req.body.message_id = Some(<<" ", "a">>)
    /\ \E m \in messages :
          m.message_id = <<"a">> /\ m.from_msisdn = <<"+", "1", "2">>
    /\ Cardinality(messages) = 1

\* C10: a request without X-Signature is answered 422 in one step that
\* neither calls insert_message nor changes the store, whatever its payload
C10_MissingHeaderIs422 ==
    [][\A w \in Workers :
         (out'[w] # out[w] /\ out'[w][1].req.sig = None)
         => /\ out'[w][1].status = 422
            /\ out'[w][1].inserted = "not_called"
            /\ pc[w] = "idle" /\ pc'[w] = "idle"
            /\ messages' = messages]_vars

\* a valid payload sent without the header was answered 422 while the store
\* held a record
C10_Witness ==
    /\ out[1] # None
    /\ out[1][1].req.sig = None
    /\ SpecPayloadValid(out[1][1].req.body)
    /\ out[1][1].status = 422
    /\ messages # {}

-----------------------------------------------------------------------------
(* Timestamps as points in time, text search as containment *)

DigitVal(c) == Ord(c) - 48

\* hours east of UTC of an offset "+HH:00"; UTC when there is none
OffsetHours(off) == IF off = <<>> THEN 0 ELSE 10 * DigitVal(off[2]) + DigitVal(off[3])

\* the instant a datetime denotes, in tenths of an hour since midnight UTC
InstantOf(dt) == 10 * (DigitVal(dt.hour) - OffsetHours(dt.off)) + DigitVal(dt.micro)

RowInstant(m) == InstantOf(fromisoformat(m.ts))

\* q occurs in t as a literal, case-sensitive substring
Contains(t, q) ==
    \E i \in 0..(Len(t) - Len(q)) : SubSeq(t, i + 1, i + Len(q)) = q

\* a finished GET /messages call answered 200
QueryDone == qres.pc = "done" /\ qres.status = 200

\* the response holds every match: first page, no shorter than the table
WholePage == qres.offset = 0 /\ qres.limit >= Cardinality(messages)

DataIds == {qres.data[i].message_id : i \in 1..Len(qres.data)}

IdsOf(rows) == {m.message_id : m \in rows}

\* C11: the records returned by get_messages are in strictly increasing
\* (timestamp, message_id) order, message_id deciding between records of
\* equal timestamp
C11_OrderedByTimestampThenId ==
    QueryDone =>
        \A i, j \in 1..Len(qres.data) : i < j =>
            \/ InstantOf(qres.data[i].ts) < InstantOf(qres.data[j].ts)
            \/ /\ InstantOf(qres.data[i].ts) = InstantOf(qres.data[j].ts)
               /\ StrLess(qres.data[i].message_id, qres.data[j].message_id)

\* C12: ordering and the since filter use the instant the caller supplied: of
\* two returned records with different instants the earlier comes first, and
\* no returned record is earlier than since
C12_TimestampIsInstant ==
    QueryDone =>
        /\ \A i, j \in 1..Len(qres.data) :
              InstantOf(qres.data[i].ts) < InstantOf(qres.data[j].ts) => i < j
        /\ qres.req[1].since # None =>
              \A i \in 1..Len(qres.data) :
                  InstantOf(qres.data[i].ts) >= InstantOf(ParseTs(qres.req[1].since[1]))

\* C13: with only a since filter, get_messages returns and counts exactly the
\* stored records whose timestamp is at or after since
C13_SinceInclusive ==
    (/\ QueryDone /\ WholePage
     /\ qres.req[1].since # None
     /\ qres.req[1].from_ = None /\ qres.req[1].q = None)
    => LET late == {m \in messages :
                      RowInstant(m) >= InstantOf(ParseTs(qres.req[1].since[1]))}
       IN  DataIds = IdsOf(late) /\ qres.total = Cardinality(late)

\* C14: for any from value supplied, the empty string included, every record
\* returned has exactly that sender and total counts the records of that sender
C14_FromExact ==
    (QueryDone /\ qres.req[1].from_ # None)
    => /\ \A i \in 1..Len(qres.data) : qres.data[i].from_ = qres.req[1].from_[1]
       /\ (qres.req[1].since = None /\ qres.req[1].q = None)
            => qres.total =
                 Cardinality({m \in messages : m.from_msisdn = qres.req[1].from_[1]})

\* C15: with only a text search q, a record matches exactly when its text
\* contains q as a literal, case-sensitive substring
C15_LiteralSubstring ==
    (/\ QueryDone /\ WholePage
     /\ qres.req[1].q # None /\ qres.req[1].q[1] # <<>>
     /\ qres.req[1].from_ = None /\ qres.req[1].since = None)
    => LET hits == {m \in messages :
                      m.text # None /\ Contains(m.text[1], qres.req[1].q[1])}
       IN  DataIds = IdsOf(hits) /\ qres.total = Cardinality(hits)

\* the arguments of the finished call with one filter kept and the others unset
OnlyFrom ==
    [QueryArgs(qres.req[1]) EXCEPT !.since = None, !.q = None]
OnlySince ==
    [QueryArgs(qres.req[1]) EXCEPT !.from_ = None, !.q = None]
OnlyQ ==
    [QueryArgs(qres.req[1]) EXCEPT !.from_ = None, !.since = None]

\* C16: with several filters set, get_messages returns and counts exactly the
\* records that each of the filters alone lets through (logical AND), and
\* with no filter set it counts every record
C16_FiltersConjoin ==
    (QueryDone /\ WholePage)
    => LET both == Matching(messages, OnlyFrom)
                       \cap Matching(messages, OnlySince)
                       \cap Matching(messages, OnlyQ)
       IN  /\ DataIds = IdsOf(both)
           /\ qres.total = Cardinality(both)
           /\ (/\ qres.req[1].from_ = None
                /\ qres.req[1].since = None
                /\ qres.req[1].q = None)
               => qres.total = Cardinality(messages)

\* from, since and q are all set, and the answer is not empty and smaller
\* than what any one of the three filters lets through
C16_Witness ==
    /\ QueryDone /\ WholePage
    /\ StrGiven(qres.req[1].from_)
    /\ qres.req[1].since # None
    /\ StrGiven(qres.req[1].q)
    /\ DataIds # {}
    /\ DataIds # IdsOf(Matching(messages, OnlyFrom))
    /\ DataIds # IdsOf(Matching(messages, OnlySince))
    /\ DataIds # IdsOf(Matching(messages, OnlyQ))

\* C17: total is the number of matches whatever limit and offset are, and
\* the records returned are elements offset+1 .. offset+limit of the ordered
\* list of all matches, none when offset >= total
C17_PageOfMatches ==
    QueryDone =>
        LET full == OrderRows(Matching(messages, QueryArgs(qres.req[1])))
            rest == IF qres.total > qres.offset THEN qres.total - qres.offset ELSE 0
        IN  /\ qres.total = Len(full)
            /\ Len(qres.data) = IF qres.limit < rest THEN qres.limit ELSE rest
            /\ \A i \in 1..Len(qres.data) :
                  qres.data[i] = ToMessage(full[qres.offset + i])

\* a page of two records from the second on, out of five matches
C17_Witness ==
    /\ QueryDone
    /\ qres.offset = 1
    /\ qres.limit = 2
    /\ qres.total = 5
    /\ Len(qres.data) = 2

\* C18: GET /messages with limit outside 1..100 or offset below 0 is answered
\* 422 at once, without a statement on the store; otherwise it is answered
\* 200 with the limit and offset used, 50 and 0 when they are omitted
C18_PaginationBounds ==
    [][/\ (qres' # qres /\ qres.pc \in {"idle", "done"})
          => LET r == qres'.req[1]
             IN  IF \/ r.limit # None /\ (r.limit[1] < 1 \/ r.limit[1] > 100)
                    \/ r.offset # None /\ r.offset[1] < 0
                 THEN /\ qres'.pc = "done"
                      /\ qres'.status = 422
                      /\ qres'.total = 0
                      /\ qres'.data = <<>>
                 ELSE (r.since = None \/ r.since[1].ok) => qres'.pc = "select"
       /\ (qres' # qres /\ qres.pc = "select")
          => /\ qres'.status = 200
             /\ qres'.limit =
                   IF qres'.req[1].limit = None THEN 50 ELSE qres'.req[1].limit[1]
             /\ qres'.offset =
                   IF qres'.req[1].offset = None THEN 0 ELSE qres'.req[1].offset[1]]_vars

\* limit=101 was answered 422 on a store that holds records
C18_Witness ==
    /\ qres.pc = "done"
    /\ qres.status = 422
    /\ qres.req[1].limit = Some(101)
    /\ qres.req[1].offset = None
    /\ messages # {}

\* the senders of the stored records and the number of records of one sender
Senders == {m.from_msisdn : m \in messages}

CountOf(f) == Cardinality({m \in messages : m.from_msisdn = f})

\* C19: messages_per_sender has min(10, number of distinct senders) entries,
\* each with the number of stored records of its sender, sorted by count
\* descending and by from ascending among equal counts, and no sender left
\* out ranks before an included one in that order
C19_TopTenSenders ==
    stats.pc \in {"timestamps", "done"} =>
        LET mps == stats.messages_per_sender
            n == Cardinality(Senders)
        IN  /\ Len(mps) = IF n < 10 THEN n ELSE 10
            /\ \A i \in 1..Len(mps) :
                  /\ mps[i].from_ \in Senders
                  /\ mps[i].count = CountOf(mps[i].from_)
            /\ \A i, j \in 1..Len(mps) : i < j =>
                  \/ mps[i].count > mps[j].count
                  \/ mps[i].count = mps[j].count /\ StrLess(mps[i].from_, mps[j].from_)
            /\ \A f \in Senders \ {mps[i].from_ : i \in 1..Len(mps)} :
                  \A i \in 1..Len(mps) :
                      ~ \/ CountOf(f) > mps[i].count
                        \/ CountOf(f) = mps[i].count /\ StrLess(f, mps[i].from_)

\* more than ten senders are stored, ten are listed with both counts among
\* them, and a sender left out has the count of the last one listed
C19_Witness ==
    /\ stats.pc = "done"
    /\ Cardinality(Senders) > 10
    /\ Len(stats.messages_per_sender) = 10
    /\ stats.messages_per_sender[1].count > stats.messages_per_sender[10].count
    /\ stats.messages_per_sender[9].count = stats.messages_per_sender[10].count
    /\ \E f \in Senders :
          /\ \A i \in 1..10 : stats.messages_per_sender[i].from_ # f
          /\ CountOf(f) = stats.messages_per_sender[10].count

\* C20: get_stats returns the number of stored records, the number of
\* distinct from values and the earliest and latest instant over all
\* records; the two timestamps are null exactly when the store is empty, and
\* then the counts are 0 and messages_per_sender is empty
C20_StatsTotals ==
    stats.pc = "done" =>
        /\ stats.total_messages = Cardinality(messages)
        /\ stats.senders_count = Cardinality(Senders)
        /\ stats.first_message_ts = None <=> messages = {}
        /\ stats.last_message_ts = None <=> messages = {}
        /\ messages = {} =>
              /\ stats.total_messages = 0
              /\ stats.senders_count = 0
              /\ stats.messages_per_sender = <<>>
        /\ messages # {} =>
              /\ \A m \in messages :
                    /\ InstantOf(stats.first_message_ts[1]) <= RowInstant(m)
                    /\ InstantOf(stats.last_message_ts[1]) >= RowInstant(m)
              /\ \E m \in messages : InstantOf(stats.first_message_ts[1]) = RowInstant(m)
              /\ \E m \in messages : InstantOf(stats.last_message_ts[1]) = RowInstant(m)

\* what get_stats returns on the record set S
StatsOf(S) ==
    [pc |-> "done",
     total_messages |-> CountAll(S),
     senders_count |-> CountDistinctSenders(S),
     messages_per_sender |-> TopSenders(S),
     first_message_ts |-> TsResult(MinTs(S)),
     last_message_ts |-> TsResult(MaxTs(S))]

\* C21: with inserts running concurrently, the values one get_stats call
\* returns are what one single state of the store yields; records are never
\* removed, so that state is a subset of the records stored by now
C21_StatsSnapshot ==
    stats.pc = "done" =>
        /\ \E S \in SUBSET messages : stats = StatsOf(S)
        /\ stats.senders_count >= Len(stats.messages_per_sender)
        /\ stats.total_messages = 0 => stats.first_message_ts = None

\* C22: GET /health/ready answers 200 exactly when the secret is non-empty
\* and the storage health check succeeds, and 503 otherwise; GET /health/live
\* answers 200 in every state
C22_HealthProbes ==
    [][health' # health =>
          /\ health'.path = "live" => health'.status = 200
          /\ health'.path = "ready" =>
                /\ health'.status \in {200, 503}
                /\ health'.status = 200 <=> (secret # "" /\ db)]_vars

\* the readiness probe answered 503 with a secret set while the database
\* could not be reached
C22_Witness ==
    /\ health.path = "ready"
    /\ health.status = 503
    /\ secret # ""
    /\ ~db

\* C23: stored records are never modified or removed; the store changes
\* only by the commit of a correctly signed request that passed validation
\* and whose message_id was not stored yet; get_messages, get_stats, the
\* health probes, duplicate inserts and rejected requests leave it unchanged
C23_StoreOnlyGrows ==
    [][/\ messages \subseteq messages'
       /\ messages' # messages =>
             \E w \in Workers :
                 /\ cur[w] # None
                 /\ CorrectlySigned(cur[w][1].req)
                 /\ WebhookPayloadValid(cur[w][1].req.body)
                 /\ cur[w][1].row.message_id \notin IdsOf(messages)
                 /\ messages' = messages \cup {cur[w][1].row}
                 /\ out'[w] # None /\ out'[w][1].result = "created"
       /\ (stats' # stats \/ qres' # qres \/ health' # health) => messages' = messages
       /\ \A w \in Workers :
             (out'[w] # out[w] /\ out'[w][1].result # "created") => messages' = messages]_vars

\* two records are stored, the last request was answered as a duplicate, and
\* GET /stats, GET /messages and the readiness probe have all run
C23_Witness ==
    /\ Cardinality(messages) = 2
    /\ out[1] # None /\ out[1][1].result = "duplicate"
    /\ stats.pc = "done" /\ stats.total_messages = 2
    /\ qres.pc = "done" /\ qres.total = 2
    /\ health.path = "ready"

\* C24: among requests valid in every other field, a text of 4097 or more
\* characters is answered 422; a text of at most 4096 characters, or no
\* text, is accepted when correctly signed, and the record created for it
\* holds the text unchanged (null when there was none)
C24_TextLimitExact ==
    \A w \in Workers :
        (/\ out[w] # None
         /\ out[w][1].req.sig # None
         /\ WebhookPayloadValid([out[w][1].req.body EXCEPT !.text = None]))
        => LET r == out[w][1].req
               t == r.body.text
           IN  IF t # None /\ Len(t[1]) >= 4097
               THEN out[w][1].status = 422
               ELSE (secret # "" /\ CorrectlySigned(r)) =>
                      /\ out[w][1].status = 200
                      /\ out[w][1].result = "created" =>
                            \E m \in messages :
                                /\ m.message_id = strip(r.body.message_id[1])
                                /\ m.text = t

\* a text of exactly 4096 characters was accepted and is stored
C24_Witness ==
    /\ out[1] # None
    /\ out[1][1].status = 200
    /\ out[1][1].result = "created"
    /\ out[1][1].req.body.text # None
    /\ Len(out[1][1].req.body.text[1]) = 4096
    /\ \E m \in messages : m.text # None /\ Len(m.text[1]) = 4096

\* C25: with inserts running concurrently, the total and the records one
\* get_messages call returns are what one single state of the store yields:
\* no more records than total - offset, and exactly total records when
\* offset is 0 and limit >= total
C25_QuerySnapshot ==
    QueryDone =>
        /\ \E S \in SUBSET messages :
              /\ qres.total = CountMatching(S, QueryArgs(qres.req[1]))
              /\ qres.data = SelectPage(S, QueryArgs(qres.req[1]))
        /\ Len(qres.data) <= (IF qres.total > qres.offset
                                THEN qres.total - qres.offset ELSE 0)
        /\ (qres.offset = 0 /\ qres.limit >= qres.total) => Len(qres.data) = qres.total

\* C26: an insert attempt during which storage fails is answered 500 and
\* stores nothing; an attempt during which storage works is answered 200 and
\* leaves exactly one record of its message_id, also after failed attempts;
\* no message_id is ever stored twice
C26_FailedInsertRetryable ==
    [][/\ UniqueIds(messages')
       /\ \A w \in Workers :
             (cur[w] # None /\ cur'[w] = None) =>
                 LET id == cur[w][1].row.message_id
                 IN  IF \/ pc[w] \in {"execute", "commit"} /\ ~db
                        \/ pc[w] = "execute" /\ lock \notin {0, w}
                     THEN /\ out'[w][1].status = 500
                          /\ messages' = messages
                     ELSE /\ out'[w][1].status = 200
                          /\ Cardinality({m \in messages' : m.message_id = id}) = 1]_vars

\* every failed attempt was made by process 1, whose repetition of a failed
\* request was answered 200, created, with one record of that id stored
C26_Witness ==
    /\ \A w \in Workers \ {1} : out[w] = None /\ pc[w] = "idle"
    /\ out[1] # None
    /\ out[1][1].status = 200
    /\ out[1][1].result = "created"
    /\ strip(out[1][1].req.body.message_id[1]) \in failed
    /\ Cardinality({m \in messages :
                       m.message_id = strip(out[1][1].req.body.message_id[1])}) = 1

\* C27: every answered POST /webhook emitted one outcome signal whose fields
\* agree with what happened: created with dup false and 200 when a record
\* was stored, duplicate with dup true and 200 when the id existed,
\* invalid_signature with 401, and validation_error exactly when the payload
\* failed validation
C27_OneOutcomeSignal ==
    \A w \in Workers :
        out[w] # None =>
            /\ out[w][1].result \in
                  {"created", "duplicate", "invalid_signature", "validation_error"}
            /\ out[w][1].result = "created" =>
                  /\ ~out[w][1].dup
                  /\ out[w][1].status = 200
                  /\ out[w][1].inserted = "True"
            /\ out[w][1].result = "duplicate" =>
                  /\ out[w][1].dup
                  /\ out[w][1].status = 200
                  /\ out[w][1].inserted = "False"
            /\ out[w][1].result = "invalid_signature" => out[w][1].status = 401
            /\ out[w][1].result = "validation_error"
                  <=> ~WebhookPayloadValid(out[w][1].req.body)

\* C28: created_at (received_at) is the store's clock at insertion and is
\* monotone in commit order: a record committed later never has a smaller
\* created_at than one committed before it, and no step changes the
\* created_at of a stored record
C28_ReceivedAtMonotone ==
    [][/\ messages \subseteq messages'
       /\ \A n \in messages' \ messages :
             /\ n.created_at <= clock
             /\ \A m \in messages : m.created_at <= n.created_at]_vars

====
